---- MODULE Spec2Model ----
(***************************************************************************)
(* Model of the train-service generator: Graph, Track, Service, the score  *)
(* helpers and hierholzer_variation.algo with its prune and merge passes.  *)
(*                                                                         *)
(* Nodes are small integers standing for station names.  An edge is a      *)
(* pair <<u, v>>, a Python tuple.  Python lists are TLA+ sequences.        *)
(* The float percen_critical_edges_traversed is kept as the exact fraction *)
(* <<numerator, denominator>>, the float score as <<a, b, c>>, standing    *)
(* for a / b - c / 100000.                                                 *)
(***************************************************************************)
EXTENDS Integers, Sequences, FiniteSets, TLC

(***************************************************************************)
(* Bounds of the model.                                                    *)
(***************************************************************************)
\* largest max_track_amount passed to algo
MaxTrackAmount == 3
\* largest max_track_length passed to algo
MaxTrackLength == 3
\* largest iterator (number of services) passed to algo
MaxIterator == 1
\* the walk of one service is cut off once the service holds this many tracks
MaxServiceTracks == 4
\* longest edge list a Track holds or is handed in TrackSpec
MaxEdgeListLen == 2
\* the largest number of critical edges get_score is applied to on its own
MaxScoreCritical == 3
\* the largest track count get_score is applied to on its own
MaxScoreTracks == 3
\* the largest total time get_score is applied to on its own
MaxScoreTime == 4
\* largest iterator passed to algo in BatchSpec
MaxBatchIterator == 2

(***************************************************************************)
(* Generic list helpers (Python list semantics).                           *)
(***************************************************************************)
\* x in lst
InList(x, lst) == \E k \in DOMAIN lst : lst[k] = x

\* tuple(reversed(edge)) / (edge[1], edge[0])
ReversedEdge(edge) == <<edge[2], edge[1]>>

\* node in edge, for a 2-tuple edge
NodeInEdge(node, edge) == edge[1] = node \/ edge[2] = node

\* list(reversed(lst))
ReversedList(lst) == [k \in 1..Len(lst) |-> lst[Len(lst) + 1 - k]]

\* index of the first occurrence of x in lst (x is in lst)
FirstIndex(x, lst) == CHOOSE k \in DOMAIN lst : lst[k] = x /\ \A m \in 1..(k - 1) : lst[m] # x

\* lst without the element at index k
RemoveAt(lst, k) == SubSeq(lst, 1, k - 1) \o SubSeq(lst, k + 1, Len(lst))

\* lst.remove(x): drops the first occurrence of x
ListRemove(lst, x) == RemoveAt(lst, FirstIndex(x, lst))

(***************************************************************************)
(* Graph (classes/graph_class.py).  A graph is built from the node rows    *)
(* (station names in file order, with the critical ones) and the edge rows *)
(* <<station_0, station_1, weight>>.                                       *)
(***************************************************************************)
\* position of node n in the node list
NodePos(nodes, n) == CHOOSE k \in DOMAIN nodes : nodes[k] = n

\* the edges networkx reports for one node n: one per edge row touching n whose
\* other end was not reported before (it comes later in node order), as (n, other)
RECURSIVE EdgesOfNode(_, _, _)
EdgesOfNode(nodes, rows, n) ==
    IF rows = <<>> THEN <<>>
    ELSE LET r == Head(rows)
             other == IF r[1] = n THEN r[2] ELSE r[1]
         IN  (IF (r[1] = n \/ r[2] = n) /\ NodePos(nodes, other) > NodePos(nodes, n)
              THEN <<(<<n, other>>)>> ELSE <<>>)
             \o EdgesOfNode(nodes, Tail(rows), n)

\* list(self.G.edges()): the nodes in insertion order, each with its unseen neighbours
RECURSIVE GraphEdges(_, _, _)
GraphEdges(nodes, rows, k) ==
    IF k > Len(nodes) THEN <<>>
    ELSE EdgesOfNode(nodes, rows, nodes[k]) \o GraphEdges(nodes, rows, k + 1)

\* add_csv_edges: the colour of an edge is 'r' iff one of its stations is critical
EdgeIsRed(critical_station_list, edge) ==
    edge[1] \in critical_station_list \/ edge[2] \in critical_station_list

\* Graph.__init__
NewGraph(nodes, critical_station_list, rows) ==
    LET edges == GraphEdges(nodes, rows, 1)
    IN  [nodes |-> nodes,
         critical_station_list |-> critical_station_list,
         rows |-> rows,
         edges |-> edges,
         critical_edge_list |-> SelectSeq(edges, LAMBDA e : EdgeIsRed(critical_station_list, e))]

\* self.G[station_0][station_1]['weight'] of the undirected networkx graph
Weight(g, u, v) ==
    LET k == CHOOSE k \in DOMAIN g.rows :
                 \/ (g.rows[k][1] = u /\ g.rows[k][2] = v)
                 \/ (g.rows[k][1] = v /\ g.rows[k][2] = u)
    IN  g.rows[k][3]

\* graph.G[node]: the neighbours of node
Neighbours(g, node) ==
    {n \in {g.nodes[k] : k \in DOMAIN g.nodes} :
        \E k \in DOMAIN g.rows : \/ (g.rows[k][1] = node /\ g.rows[k][2] = n)
                                 \/ (g.rows[k][1] = n /\ g.rows[k][2] = node)}

(***************************************************************************)
(* The input graphs of the model.                                          *)
(***************************************************************************)
\* path 1-2-3-4, station 1 critical
PathEnd == NewGraph(<<1, 2, 3, 4>>, {1}, <<<<1, 2, 1>>, <<2, 3, 1>>, <<3, 4, 1>>>>)
\* path 1-2-3-4 with edge rows written against node order, station 3 critical
PathMid == NewGraph(<<1, 2, 3, 4>>, {3}, <<<<2, 1, 1>>, <<3, 2, 2>>, <<4, 3, 1>>>>)
\* triangle 1-2-3, station 1 critical
Triangle == NewGraph(<<1, 2, 3>>, {1}, <<<<1, 2, 1>>, <<2, 3, 1>>, <<3, 1, 2>>>>)
\* star with centre 2 and a heavy spoke to 3, stations 1 and 4 critical
StarHeavy == NewGraph(<<1, 2, 3, 4>>, {1, 4}, <<<<1, 2, 1>>, <<2, 3, 3>>, <<2, 4, 1>>>>)
\* star with centre 2 and a heavy spoke to 3, every edge critical
StarAll == NewGraph(<<1, 2, 3, 4>>, {2}, <<<<1, 2, 1>>, <<2, 3, 3>>, <<2, 4, 1>>>>)
\* path 1-2-3 without critical stations
PathPlain == NewGraph(<<1, 2, 3>>, {}, <<<<1, 2, 1>>, <<2, 3, 2>>>>)

\* star with centre 2, three light spokes and a heavy one to 3, every edge critical
StarFour == NewGraph(<<1, 2, 3, 4, 5>>, {2},
                     <<<<1, 2, 1>>, <<2, 3, 3>>, <<2, 4, 1>>, <<5, 2, 1>>>>)

Graphs == {PathEnd, PathMid, Triangle, StarHeavy, StarAll, StarFour, PathPlain}

\* path 1-2-3-4 with three edges of weight 5, station 1 critical
PathOfFives == NewGraph(<<1, 2, 3, 4>>, {1}, <<<<1, 2, 5>>, <<2, 3, 5>>, <<3, 4, 5>>>>)

\* star with centre 2, four light spokes and a heavy one to 3, every edge critical
StarFive == NewGraph(<<1, 2, 3, 4, 5, 6>>, {2},
                     <<<<1, 2, 1>>, <<2, 3, 3>>, <<2, 4, 1>>, <<5, 2, 1>>, <<6, 2, 1>>>>)

VARIABLES
    graph,              \* the Graph handed to algo
    max_track_amount,   \* algo's parameter
    max_track_length,   \* algo's parameter
    iterator,           \* algo's parameter
    pc,                 \* position in algo
    i,                  \* number of services finished so far
    all_services,       \* algo's result list
    service,            \* the Service under construction
    untraversed_edges,  \* the pool
    track,              \* the Track being walked
    current_node,       \* the walk's position
    pre_prune,          \* history: service.tracks when the prune pass started
    merge_log,          \* history: the splices the last merge pass accepted
    returned_edges      \* history: the edges edge_again_untraversed put back in the
                        \* pool that no walk of the service under construction has
                        \* taken since

vars == <<graph, max_track_amount, max_track_length, iterator, pc, i, all_services,
          service, untraversed_edges, track, current_node, pre_prune, merge_log,
          returned_edges>>

(***************************************************************************)
(* Track (classes/track_class.py).                                         *)
(***************************************************************************)
\* Track.update_time: the sum of the weights of the edges
RECURSIVE update_time(_, _)
update_time(g, edges) ==
    IF edges = <<>> THEN 0
    ELSE Weight(g, Head(edges)[1], Head(edges)[2]) + update_time(g, Tail(edges))

\* Track.__init__: get_time() of no edges is 0
NewTrack == [edges |-> <<>>, necessary |-> TRUE, time |-> 0]

\* Track.add_edge
add_edge(g, t, edge) ==
    IF t.edges = <<>> \/ t.edges[Len(t.edges)][2] = edge[1]
    THEN [t EXCEPT !.edges = Append(t.edges, edge),
                   !.time = update_time(g, Append(t.edges, edge))]
    ELSE t

\* what the caller of Track.add_edge gets: the value returned, the exception raised,
\* and the line printed; both branches fall off the end of the method
add_edge_outcome(g, t, edge) ==
    IF t.edges = <<>> \/ t.edges[Len(t.edges)][2] = edge[1]
    THEN [returned |-> "None", raised |-> "nothing", printed |-> FALSE]
    ELSE [returned |-> "None", raised |-> "nothing", printed |-> TRUE]

\* Track.add_edge_list
add_edge_list(g, t, edge_list) ==
    [t EXCEPT !.edges = edge_list, !.time = update_time(g, edge_list)]

\* faulty variant of remove_last_edge: the time is not recomputed
remove_last_edge_stale_time(g, t) ==
    [t EXCEPT !.edges = SubSeq(t.edges, 1, Len(t.edges) - 1)]

\* Track.remove_last_edge
remove_last_edge(g, t) ==
    LET rest == SubSeq(t.edges, 1, Len(t.edges) - 1)
    IN  [t EXCEPT !.edges = rest, !.time = update_time(g, rest)]

(***************************************************************************)
(* helpers.py.                                                             *)
(***************************************************************************)
\* get_percentage_critical_edges_traversed: the quotient of the two lengths, as a
\* fraction; Python raises ZeroDivisionError when all_critical_edges is empty
get_percentage_critical_edges_traversed(critical_edges_traversed, all_critical_edges) ==
    <<Len(critical_edges_traversed), Len(all_critical_edges)>>

\* faulty variant of get_score: the total time is left out
get_score_without_time(percen_critical_edges_traversed, track_amount, total_track_time) ==
    <<percen_critical_edges_traversed[1] * 10000
        - percen_critical_edges_traversed[2] * (track_amount * 20),
      percen_critical_edges_traversed[2],
      0>>

\* get_score: p * 10000 - (track_amount * 20 + total_track_time / 100000).  The float is
\* kept exactly as <<a, b, c>>, standing for a / b - c / 100000
get_score(percen_critical_edges_traversed, track_amount, total_track_time) ==
    <<percen_critical_edges_traversed[1] * 10000
        - percen_critical_edges_traversed[2] * (track_amount * 20),
      percen_critical_edges_traversed[2],
      total_track_time>>

(***************************************************************************)
(* Service (classes/service_class.py).  all_critical_edges is the graph's  *)
(* critical_edge_list.                                                     *)
(***************************************************************************)
\* faulty variant of NewService: the new service already holds a track
NewServiceWithTrack ==
    [tracks |-> <<[edges |-> <<>>, necessary |-> TRUE, time |-> 0]>>,
     critical_edges_traversed |-> <<>>,
     time |-> 0,
     percen_critical_edges_traversed |-> <<0, 1>>,
     score |-> <<0, 1, 0>>]

\* Service.__init__
NewService ==
    [tracks |-> <<>>,
     critical_edges_traversed |-> <<>>,
     time |-> 0,
     percen_critical_edges_traversed |-> <<0, 1>>,
     score |-> <<0, 1, 0>>]

\* faulty variant of add_traversed_critical_edge: an edge whose reverse is recorded
\* is recorded again
RECURSIVE add_traversed_critical_edge_twice(_, _, _)
add_traversed_critical_edge_twice(all_critical_edges, critical_edges_traversed, edges) ==
    IF edges = <<>> THEN critical_edges_traversed
    ELSE LET edge == Head(edges)
             hit == /\ (InList(edge, all_critical_edges)
                            \/ InList(<<edge[2], edge[1]>>, all_critical_edges))
                    /\ ~InList(edge, critical_edges_traversed)
         IN  add_traversed_critical_edge_twice(all_critical_edges,
                 IF hit THEN Append(critical_edges_traversed, edge)
                        ELSE critical_edges_traversed,
                 Tail(edges))

\* Service.add_traversed_critical_edge, over the edges of one track
RECURSIVE add_traversed_critical_edge(_, _, _)
add_traversed_critical_edge(all_critical_edges, critical_edges_traversed, edges) ==
    IF edges = <<>> THEN critical_edges_traversed
    ELSE LET edge == Head(edges)
             hit == /\ (InList(edge, all_critical_edges)
                            \/ InList(<<edge[2], edge[1]>>, all_critical_edges))
                    /\ ~InList(edge, critical_edges_traversed)
                    /\ ~InList(<<edge[2], edge[1]>>, critical_edges_traversed)
         IN  add_traversed_critical_edge(all_critical_edges,
                 IF hit THEN Append(critical_edges_traversed, edge)
                        ELSE critical_edges_traversed,
                 Tail(edges))

\* Service.remove_traversed_critical_edge: clear, then add every track again
RECURSIVE remove_traversed_critical_edge(_, _, _)
remove_traversed_critical_edge(all_critical_edges, tracks, acc) ==
    IF tracks = <<>> THEN acc
    ELSE remove_traversed_critical_edge(all_critical_edges, Tail(tracks),
             add_traversed_critical_edge(all_critical_edges, acc, Head(tracks).edges))

\* update_scores raises ZeroDivisionError for a graph without critical edges
update_scores_raises(g) == Len(g.critical_edge_list) = 0

\* Service.update_scores
update_scores(g, s) ==
    LET p == get_percentage_critical_edges_traversed(s.critical_edges_traversed,
                                                     g.critical_edge_list)
    IN  [s EXCEPT !.percen_critical_edges_traversed = p,
                  !.score = get_score(p, Len(s.tracks), s.time)]

\* Service.add_track; when update_scores raises, the first three statements have run
add_track(g, s, t) ==
    LET s1 == [s EXCEPT !.tracks = Append(s.tracks, t),
                        !.critical_edges_traversed =
                            add_traversed_critical_edge(g.critical_edge_list,
                                s.critical_edges_traversed, t.edges),
                        !.time = s.time + t.time]
    IN  IF update_scores_raises(g) THEN s1 ELSE update_scores(g, s1)

\* Service.remove_track of the track object at index k of s.tracks
remove_track(g, s, k) ==
    LET rest == RemoveAt(s.tracks, k)
        s1 == [s EXCEPT !.tracks = rest,
                        !.critical_edges_traversed =
                            remove_traversed_critical_edge(g.critical_edge_list, rest, <<>>),
                        !.time = s.time - s.tracks[k].time]
    IN  IF update_scores_raises(g) THEN s1 ELSE update_scores(g, s1)

(***************************************************************************)
(* hierholzer_variation.py: the helpers of algo.                           *)
(***************************************************************************)
\* a station name never equals a tuple: Python's == of a str and a tuple is False
NodeEqualsEdge(node, edge) == FALSE

\* collections.Counter over the nodes of the pool edges
RECURSIVE untraversed_edges_per_node(_, _)
untraversed_edges_per_node(pool, node) ==
    IF pool = <<>> THEN 0
    ELSE (IF Head(pool)[1] = node THEN 1 ELSE 0) + (IF Head(pool)[2] = node THEN 1 ELSE 0)
         + untraversed_edges_per_node(Tail(pool), node)

\* faulty variant of get_one_edge_node: a node with one pool edge or more is chosen
get_one_edge_node_some_edge(pool, g) ==
    LET all_nodes == {g.nodes[k] : k \in DOMAIN g.nodes}
        nodes_with_an_edge == {n \in all_nodes : untraversed_edges_per_node(pool, n) >= 1}
    IN  IF nodes_with_an_edge # {} THEN nodes_with_an_edge ELSE all_nodes

\* faulty variant of get_one_edge_node: any node of the graph is chosen
get_one_edge_node_any_node(pool, g) ==
    {g.nodes[k] : k \in DOMAIN g.nodes}

\* the nodes get_one_edge_node chooses among with random.choice
get_one_edge_node(pool, g) ==
    LET all_nodes == {g.nodes[k] : k \in DOMAIN g.nodes}
        nodes_with_one_edge == {n \in all_nodes : untraversed_edges_per_node(pool, n) = 1}
        nodes_with_one_edge_and_critical_neighbor ==
            {n \in nodes_with_one_edge :
                \E k \in DOMAIN g.critical_edge_list : NodeEqualsEdge(n, g.critical_edge_list[k])}
    IN  IF nodes_with_one_edge_and_critical_neighbor # {}
        THEN nodes_with_one_edge_and_critical_neighbor
        ELSE IF nodes_with_one_edge # {} THEN nodes_with_one_edge
        ELSE all_nodes

\* faulty variant of get_neighbour_with_untraversed_edge: the first random.choice of a
\* neighbour is returned without the loop
get_neighbour_without_loop(pool, g, node) ==
    Neighbours(g, node)

\* the nodes get_neighbour_with_untraversed_edge can return: the resampling loop
\* ends on a neighbour joined to current_node by a pool edge
get_neighbour_with_untraversed_edge(pool, g, node) ==
    {n \in Neighbours(g, node) : InList(<<node, n>>, pool) \/ InList(<<n, node>>, pool)}

\* faulty variant of edge_again_untraversed: the edge is not taken off the track
edge_again_untraversed_keeps_edge(g, t, pool) ==
    <<t, Append(pool, t.edges[Len(t.edges)])>>

\* faulty variant of edge_again_untraversed: the edge is not put back in the pool
edge_again_untraversed_drops_edge(g, t, pool) ==
    <<remove_last_edge(g, t), pool>>

\* edge_again_untraversed: <<track, untraversed_edges>>
edge_again_untraversed(g, t, pool) ==
    <<remove_last_edge(g, t), Append(pool, t.edges[Len(t.edges)])>>

\* line 69: the pool edges touching current_node
remaining_edges(pool, node) == SelectSeq(pool, LAMBDA e : NodeInEdge(node, e))

\* faulty variant of RemoveChosen: the reversed orientation is not looked for
RemoveChosenForwardOnly(pool, node, neighbor) ==
    IF InList(<<node, neighbor>>, pool) THEN ListRemove(pool, <<node, neighbor>>)
    ELSE pool

\* lines 87-90: the pool without the chosen edge, in whichever orientation it holds it
RemoveChosen(pool, node, neighbor) ==
    IF InList(<<node, neighbor>>, pool) THEN ListRemove(pool, <<node, neighbor>>)
    ELSE IF InList(<<neighbor, node>>, pool) THEN ListRemove(pool, <<neighbor, node>>)
    ELSE pool

\* faulty variant of HasCriticalEdge: the reversed orientation is not looked for
HasCriticalEdgeForwardOnly(g, t) ==
    \E k \in DOMAIN t.edges : InList(t.edges[k], g.critical_edge_list)

\* the test of remove_unnecessary_tracks on one track
HasCriticalEdge(g, t) ==
    \E k \in DOMAIN t.edges :
        \/ InList(t.edges[k], g.critical_edge_list)
        \/ InList(ReversedEdge(t.edges[k]), g.critical_edge_list)

\* remove_unnecessary_tracks: only service.tracks is assigned
remove_unnecessary_tracks(g, s) ==
    [s EXCEPT !.tracks = SelectSeq(s.tracks, LAMBDA t : HasCriticalEdge(g, t))]

(***************************************************************************)
(* combine_tracks.                                                         *)
(***************************************************************************)
\* faulty variant of combined_tracks: the end/end case forgets to reverse track_i
combined_tracks_unreversed(track_i, track_j) ==
    LET start_i == track_i.edges[1][1]
        start_j == track_j.edges[1][1]
        end_i == track_i.edges[Len(track_i.edges)][2]
        end_j == track_j.edges[Len(track_j.edges)][2]
        reversed_j == [k \in 1..Len(track_j.edges) |->
                          ReversedEdge(track_j.edges[Len(track_j.edges) + 1 - k])]
    IN  IF start_i = start_j THEN [found |-> TRUE, edges |-> reversed_j \o track_i.edges]
        ELSE IF start_i = end_j THEN [found |-> TRUE, edges |-> track_j.edges \o track_i.edges]
        ELSE IF end_i = start_j THEN [found |-> TRUE, edges |-> track_i.edges \o track_j.edges]
        ELSE IF end_i = end_j THEN [found |-> TRUE, edges |-> track_j.edges \o track_i.edges]
        ELSE [found |-> FALSE, edges |-> <<>>]

\* lines 213-229: the spliced edge list of a pair, or no splice (the continue)
combined_tracks(track_i, track_j) ==
    LET start_i == track_i.edges[1][1]
        start_j == track_j.edges[1][1]
        end_i == track_i.edges[Len(track_i.edges)][2]
        end_j == track_j.edges[Len(track_j.edges)][2]
        reversed_j == [k \in 1..Len(track_j.edges) |->
                          ReversedEdge(track_j.edges[Len(track_j.edges) + 1 - k])]
        reversed_i == [k \in 1..Len(track_i.edges) |->
                          ReversedEdge(track_i.edges[Len(track_i.edges) + 1 - k])]
    IN  IF start_i = start_j THEN [found |-> TRUE, edges |-> reversed_j \o track_i.edges]
        ELSE IF start_i = end_j THEN [found |-> TRUE, edges |-> track_j.edges \o track_i.edges]
        ELSE IF end_i = start_j THEN [found |-> TRUE, edges |-> track_i.edges \o track_j.edges]
        ELSE IF end_i = end_j THEN [found |-> TRUE, edges |-> track_j.edges \o reversed_i]
        ELSE [found |-> FALSE, edges |-> <<>>]

\* faulty variant of PairEligible: a combined time equal to the maximum is let through
PairEligibleInclusive(track_i, track_j, max_len) ==
    /\ track_i.time + track_j.time <= max_len
    /\ track_i.edges # <<>>
    /\ track_j.edges # <<>>

\* line 211-212: the guard of a pair
PairEligible(track_i, track_j, max_len) ==
    /\ track_i.time + track_j.time < max_len
    /\ track_i.edges # <<>>
    /\ track_j.edges # <<>>

\* one iteration of the loop of line 210 on the pair of tracks at indices a < b;
\* acc holds temp_new_track_list, the tracks with their necessary flags, and the log
ScanPair(acc, a, b, max_len) ==
    LET track_i == acc.tracks[a]
        track_j == acc.tracks[b]
        c == combined_tracks(track_i, track_j)
    IN  IF PairEligible(track_i, track_j, max_len) /\ c.found
           /\ ~InList(c.edges, acc.temp_new_track_list)
           /\ ~InList(ReversedList(c.edges), acc.temp_new_track_list)
        THEN [temp_new_track_list |-> Append(acc.temp_new_track_list, c.edges),
              tracks |-> [acc.tracks EXCEPT ![a].necessary = FALSE, ![b].necessary = FALSE],
              log |-> Append(acc.log, [i |-> a, j |-> b, time_i |-> track_i.time,
                                       time_j |-> track_j.time, edges |-> c.edges])]
        ELSE acc

\* itertools.combinations(service.tracks, 2): the pairs in lexicographic index order
RECURSIVE ScanPairs(_, _, _, _)
ScanPairs(acc, a, b, max_len) ==
    IF a >= Len(acc.tracks) THEN acc
    ELSE IF b > Len(acc.tracks) THEN ScanPairs(acc, a + 1, a + 2, max_len)
    ELSE ScanPairs(ScanPair(acc, a, b, max_len), a, b + 1, max_len)

\* faulty variant of RemoveSuperseded: the loop walks service.tracks itself and
\* not its copy, so the track that follows a removed one is skipped
RECURSIVE RemoveSupersededInPlace(_, _, _, _, _)
RemoveSupersededInPlace(g, s, copy, k, removed) ==
    IF k > Len(s.tracks) THEN s
    ELSE IF ~s.tracks[k].necessary
         THEN RemoveSupersededInPlace(g, remove_track(g, s, k), copy, k + 1, removed)
         ELSE RemoveSupersededInPlace(g, s, copy, k + 1, removed)

\* lines 238-240: remove_track for every track of the copy that is not necessary;
\* k walks the copy, removed counts the tracks already taken out of s.tracks
RECURSIVE RemoveSuperseded(_, _, _, _, _)
RemoveSuperseded(g, s, copy, k, removed) ==
    IF k > Len(copy) THEN s
    ELSE IF ~copy[k].necessary
         THEN RemoveSuperseded(g, remove_track(g, s, k - removed), copy, k + 1, removed + 1)
         ELSE RemoveSuperseded(g, s, copy, k + 1, removed)

\* lines 242-245: a new Track per spliced edge list, added to the service
RECURSIVE AddCombined(_, _, _)
AddCombined(g, s, temp_new_track_list) ==
    IF temp_new_track_list = <<>> THEN s
    ELSE AddCombined(g,
             add_track(g, s, add_edge_list(g, NewTrack, Head(temp_new_track_list))),
             Tail(temp_new_track_list))

\* the scan of combine_tracks over the tracks of s
MergeScan(s, max_len) ==
    ScanPairs([temp_new_track_list |-> <<>>, tracks |-> s.tracks, log |-> <<>>], 1, 2, max_len)

\* combine_tracks
combine_tracks(g, s, max_len) ==
    LET scan == MergeScan(s, max_len)
        flagged == [s EXCEPT !.tracks = scan.tracks]
    IN  IF scan.temp_new_track_list # <<>>
        THEN AddCombined(g, RemoveSuperseded(g, flagged, scan.tracks, 1, 0),
                         scan.temp_new_track_list)
        ELSE flagged

(***************************************************************************)
(* algo.                                                                   *)
(***************************************************************************)
Init ==
    /\ \/ /\ graph \in Graphs
          /\ max_track_amount \in 1..MaxTrackAmount
          /\ max_track_length \in 0..MaxTrackLength
          /\ iterator \in 0..MaxIterator
       \/ /\ graph = PathOfFives
          /\ max_track_amount = 1
          /\ max_track_length = 100
          /\ iterator = 1
       \/ /\ graph = StarFive
          /\ max_track_amount = 4
          /\ max_track_length = 3
          /\ iterator = 1
    /\ pc = "for"
    /\ i = 0
    /\ all_services = <<>>
    /\ service = NewService
    /\ untraversed_edges = <<>>
    /\ track = NewTrack
    /\ current_node = 0
    /\ pre_prune = <<>>
    /\ merge_log = <<>>
    /\ returned_edges = {}

params == <<graph, max_track_amount, max_track_length, iterator>>

\* lines 57-59: the next service is started with a new Service and the full pool
StartService ==
    /\ pc = "for"
    /\ i < iterator
    /\ service' = NewService
    /\ untraversed_edges' = graph.edges
    /\ returned_edges' = {}
    /\ pc' = "while"
    /\ UNCHANGED <<params, i, all_services, track, current_node, pre_prune, merge_log>>

\* line 106: the loop over the services is over
Return ==
    /\ pc = "for"
    /\ i >= iterator
    /\ pc' = "done"
    /\ UNCHANGED <<params, i, all_services, service, untraversed_edges, track,
                   current_node, pre_prune, merge_log, returned_edges>>

\* lines 62-64: a new track is started at a seed node
StartTrack ==
    /\ pc = "while"
    /\ untraversed_edges # <<>>
    /\ Len(service.tracks) < max_track_amount
    /\ track' = NewTrack
    /\ current_node' \in get_one_edge_node(untraversed_edges, graph)
    /\ pc' = "walk"
    /\ UNCHANGED <<params, i, all_services, service, untraversed_edges, pre_prune, merge_log,
                   returned_edges>>

\* line 62, condition false: construction ends
EndConstruction ==
    /\ pc = "while"
    /\ ~(untraversed_edges # <<>> /\ Len(service.tracks) < max_track_amount)
    /\ pc' = "prune"
    /\ pre_prune' = service.tracks
    /\ UNCHANGED <<params, i, all_services, service, untraversed_edges, track,
                   current_node, merge_log, returned_edges>>

\* lines 72-76: no pool edge touches current_node
WalkStuck ==
    /\ pc = "walk"
    /\ remaining_edges(untraversed_edges, current_node) = <<>>
    /\ LET fixed == IF track.time > max_track_length
                    THEN edge_again_untraversed(graph, track, untraversed_edges)
                    ELSE <<track, untraversed_edges>>
       IN  /\ track' = fixed[1]
           /\ untraversed_edges' = fixed[2]
           /\ service' = add_track(graph, service, fixed[1])
    /\ returned_edges' = IF track.time > max_track_length
                         THEN returned_edges \cup {track.edges[Len(track.edges)]}
                         ELSE returned_edges
    /\ pc' = IF update_scores_raises(graph) THEN "error" ELSE "while"
    /\ UNCHANGED <<params, i, all_services, current_node, pre_prune, merge_log>>

\* lines 78-81: the track is too long while pool edges touch current_node
WalkOverflow ==
    /\ pc = "walk"
    /\ remaining_edges(untraversed_edges, current_node) # <<>>
    /\ track.time > max_track_length
    /\ Len(service.tracks) < MaxServiceTracks
    /\ LET fixed == edge_again_untraversed(graph, track, untraversed_edges)
       IN  /\ untraversed_edges' = fixed[2]
           /\ service' = add_track(graph, service, fixed[1])
           /\ track' = IF update_scores_raises(graph) THEN fixed[1] ELSE NewTrack
    /\ returned_edges' = returned_edges \cup {track.edges[Len(track.edges)]}
    /\ pc' = IF update_scores_raises(graph) THEN "error" ELSE "walk"
    /\ UNCHANGED <<params, i, all_services, current_node, pre_prune, merge_log>>

\* lines 83-93 when get_neighbour_with_untraversed_edge returns random_neighbor_node
WalkExtendTo(random_neighbor_node) ==
    /\ pc = "walk"
    /\ remaining_edges(untraversed_edges, current_node) # <<>>
    /\ ~(track.time > max_track_length)
    /\ random_neighbor_node \in
           get_neighbour_with_untraversed_edge(untraversed_edges, graph, current_node)
    /\ untraversed_edges' = RemoveChosen(untraversed_edges, current_node, random_neighbor_node)
    /\ track' = add_edge(graph, track, <<current_node, random_neighbor_node>>)
    /\ current_node' = random_neighbor_node
    /\ returned_edges' = returned_edges \ {<<current_node, random_neighbor_node>>,
                                            <<random_neighbor_node, current_node>>}
    /\ UNCHANGED <<params, pc, i, all_services, service, pre_prune, merge_log>>

\* the station names of the input graphs
Stations == UNION {{g.nodes[k] : k \in DOMAIN g.nodes} : g \in Graphs \cup {PathOfFives, StarFive}}

\* lines 83-93: the walk takes a pool edge to a random neighbour
WalkExtend == \E random_neighbor_node \in Stations : WalkExtendTo(random_neighbor_node)

\* line 96
Prune ==
    /\ pc = "prune"
    /\ service' = remove_unnecessary_tracks(graph, service)
    /\ pc' = "merge"
    /\ UNCHANGED <<params, i, all_services, untraversed_edges, track, current_node,
                   pre_prune, merge_log, returned_edges>>

\* line 97
Combine ==
    /\ pc = "merge"
    /\ service' = combine_tracks(graph, service, max_track_length)
    /\ merge_log' = MergeScan(service, max_track_length).log
    /\ pc' = "collect"
    /\ UNCHANGED <<params, i, all_services, untraversed_edges, track, current_node, pre_prune,
                   returned_edges>>

\* line 99
Collect ==
    /\ pc = "collect"
    /\ all_services' = Append(all_services, service)
    /\ i' = i + 1
    /\ pc' = "for"
    /\ UNCHANGED <<params, service, untraversed_edges, track, current_node,
                   pre_prune, merge_log, returned_edges>>

Next ==
    \/ StartService
    \/ Return
    \/ StartTrack
    \/ EndConstruction
    \/ WalkStuck
    \/ WalkOverflow
    \/ WalkExtend
    \/ Prune
    \/ Combine
    \/ Collect

Spec == Init /\ [][Next]_vars

(***************************************************************************)
(* algo called for batches of several services, on fewer graphs and        *)
(* parameters.                                                             *)
(***************************************************************************)
BatchGraphs == {PathEnd, Triangle, StarAll}

BatchInit ==
    /\ graph \in BatchGraphs
    /\ max_track_amount \in 1..2
    /\ max_track_length \in 1..2
    /\ iterator \in 0..MaxBatchIterator
    /\ pc = "for"
    /\ i = 0
    /\ all_services = <<>>
    /\ service = NewService
    /\ untraversed_edges = <<>>
    /\ track = NewTrack
    /\ current_node = 0
    /\ pre_prune = <<>>
    /\ merge_log = <<>>
    /\ returned_edges = {}

BatchSpec == BatchInit /\ [][Next]_vars

(***************************************************************************)
(* algo under fair random choices.  The walk reads the pool, the track and *)
(* current_node but never service.tracks, so the branch of lines 78-81 is  *)
(* followed beyond MaxServiceTracks tracks as well: the tracks it adds     *)
(* from there on are not recorded in service.                              *)
(***************************************************************************)
\* lines 78-81 once the service holds MaxServiceTracks tracks or more
WalkOverflowUnrecorded ==
    /\ pc = "walk"
    /\ remaining_edges(untraversed_edges, current_node) # <<>>
    /\ track.time > max_track_length
    /\ Len(service.tracks) >= MaxServiceTracks
    /\ untraversed_edges' = edge_again_untraversed(graph, track, untraversed_edges)[2]
    /\ track' = NewTrack
    /\ returned_edges' = returned_edges \cup {track.edges[Len(track.edges)]}
    /\ UNCHANGED <<params, pc, i, all_services, service, current_node, pre_prune, merge_log>>

FairNext ==
    \/ Next
    \/ WalkOverflowUnrecorded

\* the steps of algo other than the merge pass
StepButCombine ==
    \/ StartService
    \/ Return
    \/ StartTrack
    \/ EndConstruction
    \/ WalkStuck
    \/ WalkOverflow
    \/ WalkOverflowUnrecorded
    \/ WalkExtend
    \/ Prune
    \/ Collect

\* the interpreter goes on to the next statement; combine_tracks loops over
\* finite lists, so the merge pass is left; random.choice returns every neighbour
\* it can return again and again
FairSpec ==
    /\ Init
    /\ [][FairNext]_vars
    /\ WF_vars(StepButCombine)
    /\ []<>(pc # "merge")
    /\ \A n \in Stations : SF_vars(WalkExtendTo(n))

(***************************************************************************)
(* The Track API on its own: any sequence of add_edge, add_edge_list and   *)
(* remove_last_edge calls on one new Track, with edges of the graph in     *)
(* either direction as arguments.                                          *)
(***************************************************************************)
\* the edges of g in both directions
DirectedEdges(g) ==
    {g.edges[k] : k \in DOMAIN g.edges} \cup {ReversedEdge(g.edges[k]) : k \in DOMAIN g.edges}

\* the edge lists of at most MaxEdgeListLen edges, contiguous or not
EdgeLists(g) == UNION {[1..n -> DirectedEdges(g)] : n \in 0..MaxEdgeListLen}

TrackInit ==
    /\ graph \in Graphs
    /\ max_track_amount = 1
    /\ max_track_length = 0
    /\ iterator = 0
    /\ pc = "track"
    /\ i = 0
    /\ all_services = <<>>
    /\ service = NewService
    /\ untraversed_edges = <<>>
    /\ track = NewTrack
    /\ current_node = 0
    /\ pre_prune = <<>>
    /\ merge_log = <<>>
    /\ returned_edges = {}

TrackFrame ==
    UNCHANGED <<params, pc, i, all_services, service, untraversed_edges, current_node,
                pre_prune, merge_log, returned_edges>>

\* a call of Track.add_edge
CallAddEdge ==
    /\ pc = "track"
    /\ Len(track.edges) < MaxEdgeListLen
    /\ \E edge \in DirectedEdges(graph) : track' = add_edge(graph, track, edge)
    /\ TrackFrame

\* a call of Track.add_edge_list
CallAddEdgeList ==
    /\ pc = "track"
    /\ \E edge_list \in EdgeLists(graph) : track' = add_edge_list(graph, track, edge_list)
    /\ TrackFrame

\* a call of Track.remove_last_edge
CallRemoveLastEdge ==
    /\ pc = "track"
    /\ track' = remove_last_edge(graph, track)
    /\ TrackFrame

TrackNext ==
    \/ CallAddEdge
    \/ CallAddEdgeList
    \/ CallRemoveLastEdge

TrackSpec == TrackInit /\ [][TrackNext]_vars

(***************************************************************************)
(* get_score on its own, applied as Service.update_scores applies it: to   *)
(* the coverage, the number of tracks and the time of a Service.           *)
(***************************************************************************)
\* the coverage fractions covered / all, as get_percentage_critical_edges_traversed
\* gives them
Coverages == {percen \in (0..MaxScoreCritical) \X (1..MaxScoreCritical) : percen[1] <= percen[2]}

ScoreInit ==
    /\ graph = PathEnd
    /\ max_track_amount = 1
    /\ max_track_length = 0
    /\ iterator = 0
    /\ pc = "score"
    /\ i = 0
    /\ all_services = <<>>
    /\ \E percen \in Coverages, track_amount \in 0..MaxScoreTracks, time \in 0..MaxScoreTime :
          service = [NewService EXCEPT !.percen_critical_edges_traversed = percen,
                                       !.tracks = [k \in 1..track_amount |-> NewTrack],
                                       !.time = time]
    /\ untraversed_edges = <<>>
    /\ track = NewTrack
    /\ current_node = 0
    /\ pre_prune = <<>>
    /\ merge_log = <<>>
    /\ returned_edges = {}

\* service_class.py line 95: the call of get_score
CallGetScore ==
    /\ pc = "score"
    /\ service' = [service EXCEPT !.score =
                       get_score(service.percen_critical_edges_traversed,
                                 Len(service.tracks), service.time)]
    /\ pc' = "scored"
    /\ UNCHANGED <<params, i, all_services, untraversed_edges, track, current_node,
                   pre_prune, merge_log, returned_edges>>

ScoreNext == CallGetScore

ScoreSpec == ScoreInit /\ [][ScoreNext]_vars

(***************************************************************************)
(* Properties.                                                             *)
(***************************************************************************)
\* the tracks of every service in all_services and of the service under construction
AllServices == {all_services[k] : k \in DOMAIN all_services}
TracksOf(s) == {s.tracks[k] : k \in DOMAIN s.tracks}

\* the contiguity of an edge list
Contiguous(edges) == \A k \in 1..(Len(edges) - 1) : edges[k][2] = edges[k + 1][1]

\* C1: in the track being walked, in every track of the service under construction and
\* in every track of every returned service, the end node of an edge is the start node
\* of the next edge
TracksContiguous ==
    /\ Contiguous(track.edges)
    /\ \A t \in TracksOf(service) : Contiguous(t.edges)
    /\ \A s \in AllServices : \A t \in TracksOf(s) : Contiguous(t.edges)

\* a returned service holds a track of two or more edges spliced by the merge pass
MergedTrackReturned ==
    /\ pc = "done"
    /\ \E s \in AllServices : \E k \in DOMAIN merge_log : \E t \in TracksOf(s) :
          /\ t.edges = merge_log[k].edges
          /\ Len(t.edges) >= 2

\* the weight of the graph edge with the two endpoints of edge, in either direction
UndirectedWeight(g, edge) ==
    LET row == CHOOSE r \in {g.rows[k] : k \in DOMAIN g.rows} : {r[1], r[2]} = {edge[1], edge[2]}
    IN  row[3]

\* the sum of the weights of the first n edges of an edge list
RECURSIVE WeightOfPrefix(_, _, _)
WeightOfPrefix(g, edges, n) ==
    IF n = 0 THEN 0 ELSE WeightOfPrefix(g, edges, n - 1) + UndirectedWeight(g, edges[n])

\* C2: after any sequence of add_edge, add_edge_list and remove_last_edge calls, the
\* time of the Track is the sum of the graph weights of the edges it holds
TrackTimeIsWeightSum ==
    pc = "track" => track.time = WeightOfPrefix(graph, track.edges, Len(track.edges))

\* a Track of two edges, the heavy spoke among them, that is not contiguous
TrackOfTwoEdges ==
    /\ pc = "track"
    /\ Len(track.edges) = 2
    /\ track.time = 4
    /\ ~Contiguous(track.edges)

\* how often the undirected edge e occurs in an edge list
Occurrences(e, edges) ==
    Cardinality({k \in DOMAIN edges : edges[k] = e \/ ReversedEdge(edges[k]) = e})

\* how often the undirected edge e occurs in the tracks of a track list
RECURSIVE OccurrencesInTracks(_, _)
OccurrencesInTracks(e, tracks) ==
    IF tracks = <<>> THEN 0
    ELSE Occurrences(e, Head(tracks).edges) + OccurrencesInTracks(e, Tail(tracks))

\* the number of edges held by the tracks of a track list
RECURSIVE EdgeCount(_)
EdgeCount(tracks) == IF tracks = <<>> THEN 0 ELSE Len(Head(tracks).edges) + EdgeCount(Tail(tracks))

\* the edges of the track being walked; between two walks there is none
WalkedEdges == IF pc = "walk" THEN track.edges ELSE <<>>

\* C3: at every loop boundary of a construction, every graph edge is, by undirected
\* identity, exactly once in the pool, the track being walked and the tracks of the
\* service together, and these hold nothing else
EdgeConservation ==
    pc \in {"while", "walk"} =>
        /\ \A k \in DOMAIN graph.edges :
              Occurrences(graph.edges[k], untraversed_edges)
                + Occurrences(graph.edges[k], WalkedEdges)
                + OccurrencesInTracks(graph.edges[k], service.tracks) = 1
        /\ Len(untraversed_edges) + Len(WalkedEdges) + EdgeCount(service.tracks)
              = Len(graph.edges)

\* the walk goes on after an overflow correction: the pool holds an edge against its
\* graph orientation, the service holds a track with edges, the walked track has edges
WalkAfterCorrection ==
    /\ pc = "walk"
    /\ track.edges # <<>>
    /\ \E t \in TracksOf(service) : t.edges # <<>>
    /\ \E k \in DOMAIN untraversed_edges :
          /\ ~InList(untraversed_edges[k], graph.edges)
          /\ InList(ReversedEdge(untraversed_edges[k]), graph.edges)

\* C4 as claimed: every returned service holds at most max_track_amount tracks
ReturnedWithinTrackAmount ==
    pc = "done" => \A s \in AllServices : Len(s.tracks) <= max_track_amount

\* C5: every track the walk has added to the service has a time of at most
\* max_track_length, and the track being walked exceeds it by its last edge at most
WalkTracksWithinLength ==
    /\ pc \in {"while", "walk", "prune", "error"} =>
          \A t \in TracksOf(service) : t.time <= max_track_length
    /\ (pc = "walk" /\ track.edges # <<>>) =>
          track.time - UndirectedWeight(graph, track.edges[Len(track.edges)])
              <= max_track_length

\* an overflow correction has acted: the last pool edge continues the last track of the
\* service, which would be too long with it
CorrectedTrackAdded ==
    /\ pc = "while"
    /\ service.tracks # <<>>
    /\ untraversed_edges # <<>>
    /\ LET t == service.tracks[Len(service.tracks)]
           e == untraversed_edges[Len(untraversed_edges)]
       IN  /\ t.edges # <<>>
           /\ t.edges[Len(t.edges)][2] = e[1]
           /\ t.time <= max_track_length
           /\ t.time + UndirectedWeight(graph, e) > max_track_length

TouchesCritical(g, t) ==
    \E k \in DOMAIN t.edges : \E c \in DOMAIN g.critical_edge_list :
        {t.edges[k][1], t.edges[k][2]} = {g.critical_edge_list[c][1], g.critical_edge_list[c][2]}

\* the indices of the tracks before the prune pass that hold a critical edge
CriticalIndices == {k \in DOMAIN pre_prune : TouchesCritical(graph, pre_prune[k])}

\* C7: the prune pass keeps exactly the tracks that hold a critical edge in either
\* orientation, in their order, and removes the others
PruneKeepsCriticalTracks ==
    pc = "merge" =>
        /\ Len(service.tracks) = Cardinality(CriticalIndices)
        /\ \A j \in DOMAIN service.tracks :
              service.tracks[j] =
                  pre_prune[CHOOSE k \in CriticalIndices :
                                Cardinality({m \in CriticalIndices : m <= k}) = j]

\* the prune pass has removed a track and kept one whose critical edges are all held
\* against their graph orientation
PrunedAndKeptReversed ==
    /\ pc = "merge"
    /\ Len(service.tracks) < Len(pre_prune)
    /\ \E t \in TracksOf(service) :
          \A k \in DOMAIN t.edges : ~InList(t.edges[k], graph.critical_edge_list)

\* the sum of the times of the tracks of a track list
RECURSIVE SumOfTimes(_)
SumOfTimes(tracks) == IF tracks = <<>> THEN 0 ELSE Head(tracks).time + SumOfTimes(Tail(tracks))

\* C8 as claimed: the total time of a service is the sum of the times of its tracks
ServiceTimeIsSum ==
    \A s \in AllServices \cup {service} : s.time = SumOfTimes(s.tracks)

\* the score <<a, b, c>>, standing for a / b - c / 100000, equals
\* covered / all * 10000 - (amount * 20 + time / 100000); with numbers this small the
\* two are equal only if c = time and the fractions are equal
ScoreEquals(score, covered, all, amount, time) ==
    /\ score[3] = time
    /\ score[1] * all = (covered * 10000 - all * (amount * 20)) * score[2]

\* C9 as claimed: the score of a service is the score of its current tracks, coverage
\* and total time
ScoreIsCurrent ==
    Len(graph.critical_edge_list) > 0 =>
        \A s \in AllServices \cup {service} :
            ScoreEquals(s.score, Len(s.critical_edges_traversed),
                        Len(graph.critical_edge_list), Len(s.tracks), s.time)

\* edge e occurs in an edge list in one of its two orientations
UndirectedIn(e, edges) ==
    \E k \in DOMAIN edges : {edges[k][1], edges[k][2]} = {e[1], e[2]}

AlgoTerminates == <>(pc \in {"done", "error"})

\* C12: for a graph without critical edges algo raises no error, and every service
\* it returns has coverage 0 and no tracks
NoErrorWithoutCriticalEdges ==
    graph.critical_edge_list = <<>> =>
        /\ pc # "error"
        /\ pc = "done" =>
               \A s \in AllServices :
                   /\ s.percen_critical_edges_traversed[1] = 0
                   /\ s.tracks = <<>>

\* C13: add_edge with an edge that does not start where a non-empty track ends gives
\* its caller a return value or an exception that a successful append does not give
RejectedAddEdgeReported ==
    pc = "track" =>
        \A edge \in DirectedEdges(graph) :
            (track.edges # <<>> /\ track.edges[Len(track.edges)][2] # edge[1]) =>
                LET rejected == add_edge_outcome(graph, track, edge)
                    appended == add_edge_outcome(graph, NewTrack, edge)
                IN  \/ rejected.returned # appended.returned
                    \/ rejected.raised # appended.raised

\* C14: on the path of three edges of weight 5 with one end station critical, algo
\* with max_track_amount 1, max_track_length 100 and iterator 1 returns one service
\* of one track that holds all three edges, with time 15 and coverage 1
PathOfFivesOneTrack ==
    (graph = PathOfFives /\ max_track_amount = 1 /\ max_track_length = 100
        /\ iterator = 1 /\ pc = "done") =>
        /\ Len(all_services) = 1
        /\ Len(all_services[1].tracks) = 1
        /\ Len(all_services[1].tracks[1].edges) = 3
        /\ \A k \in DOMAIN graph.edges :
               UndirectedIn(graph.edges[k], all_services[1].tracks[1].edges)
        /\ all_services[1].tracks[1].time = 15
        /\ all_services[1].time = 15
        /\ all_services[1].percen_critical_edges_traversed[2] > 0
        /\ all_services[1].percen_critical_edges_traversed[1]
               = all_services[1].percen_critical_edges_traversed[2]

\* the scenario has returned after a walk from the far end, station 4
PathOfFivesWalkedBackwards ==
    /\ graph = PathOfFives
    /\ pc = "done"
    /\ Len(all_services) = 1
    /\ all_services[1].tracks # <<>>
    /\ all_services[1].tracks[1].edges = <<<<4, 3>>, <<3, 2>>, <<2, 1>>>>

\* C15 as stated: when the construction of a service ends, no edge that an overflow
\* correction put back in the pool is still waiting to be taken by a walk
ReturnedEdgesPlaced ==
    pc = "prune" => returned_edges = {}

\* C15, amended: when the construction of a service ends with fewer than
\* max_track_amount tracks, no edge that an overflow correction put back in the pool
\* is still waiting to be taken: the pool is empty and every edge of the graph is in
\* exactly one track of the service
ReturnedEdgesPlacedBelowCap ==
    (pc = "prune" /\ Len(service.tracks) < max_track_amount) =>
        /\ returned_edges = {}
        /\ untraversed_edges = <<>>
        /\ \A k \in DOMAIN graph.edges :
               OccurrencesInTracks(graph.edges[k], service.tracks) = 1

\* a construction with an overflow correction has ended below the track cap: on the
\* path 1-2-3-4 the first track ends at station 3 only if the walk went on to
\* station 4 and the edge 3-4 was put back
CorrectionEndedBelowCap ==
    /\ graph = PathEnd
    /\ max_track_length = 2
    /\ pc = "prune"
    /\ Len(service.tracks) = 2
    /\ Len(service.tracks) < max_track_amount
    /\ service.tracks[1].edges = <<<<1, 2>>, <<2, 3>>>>
    /\ service.tracks[2].edges = <<<<4, 3>>>>

\* the score x is below the score y; a score <<a, b, c>> stands for a / b - c / 100000
ScoreBelow(x, y) ==
    x[1] * y[2] - y[1] * x[2] <= ((x[3] - y[3]) * x[2] * y[2] - 1) \div 100000

\* C16: the score get_score returns for a coverage, a track count and a total time is
\* below its score for every larger coverage, and above its scores for one more track
\* and for one more unit of time, the other two arguments being the same
ScoreStrictlyMonotone ==
    pc = "scored" =>
        LET percen == service.percen_critical_edges_traversed
            track_amount == Len(service.tracks)
            time == service.time
        IN  /\ \A larger \in Coverages :
                   larger[1] * percen[2] > percen[1] * larger[2] =>
                       ScoreBelow(service.score, get_score(larger, track_amount, time))
            /\ ScoreBelow(get_score(percen, track_amount + 1, time), service.score)
            /\ ScoreBelow(get_score(percen, track_amount, time + 1), service.score)

\* get_score has been applied to a partial coverage, some tracks and a positive time
ScoredPartialCoverage ==
    /\ pc = "scored"
    /\ service.percen_critical_edges_traversed = <<1, 2>>
    /\ Len(service.tracks) = 2
    /\ service.time = 3

\* C17: no track of the service is a source of two of the splices a merge pass accepts
NoTrackSplicedTwice ==
    pc = "collect" =>
        \A a, b \in DOMAIN merge_log :
            a # b => {merge_log[a].i, merge_log[a].j} \cap {merge_log[b].i, merge_log[b].j} = {}

\* the stations of the graph
GraphNodes == {graph.nodes[k] : k \in DOMAIN graph.nodes}

\* the number of pool edges that touch a station
TouchingPoolEdges(node) ==
    Cardinality({k \in DOMAIN untraversed_edges : NodeInEdge(node, untraversed_edges[k])})

\* the stations touched by exactly one pool edge, and the critical ones among them
OneEdgeNodes == {n \in GraphNodes : TouchingPoolEdges(n) = 1}
CriticalOneEdgeNodes == OneEdgeNodes \cap graph.critical_station_list

\* the step in which get_one_edge_node is called and its result becomes current_node
SeedStep == pc = "while" /\ pc' = "walk"

\* C18: when a critical station is touched by exactly one pool edge, the seed
\* get_one_edge_node returns is a critical station touched by exactly one pool edge
SeedPrefersCritical ==
    [][(SeedStep /\ CriticalOneEdgeNodes # {}) => current_node' \in CriticalOneEdgeNodes]_vars

\* C19: when a station is touched by exactly one pool edge, the seed
\* get_one_edge_node returns is such a station; otherwise it is a station of the graph
SeedHasOneEdge ==
    [][SeedStep => IF OneEdgeNodes # {}
                   THEN current_node' \in OneEdgeNodes
                   ELSE current_node' \in GraphNodes]_vars

\* the first seed of a service is a station with one pool edge, while another station
\* has two
SeededAtOneEdgeNode ==
    /\ pc = "walk"
    /\ service.tracks = <<>>
    /\ track.edges = <<>>
    /\ returned_edges = {}
    /\ TouchingPoolEdges(current_node) = 1
    /\ \E n \in GraphNodes : TouchingPoolEdges(n) = 2

\* the walk is about to call get_neighbour_with_untraversed_edge (line 85)
NeighbourCall ==
    /\ pc = "walk"
    /\ remaining_edges(untraversed_edges, current_node) # <<>>
    /\ ~(track.time > max_track_length)

\* the pool holds the edge between two stations, in one of the two orientations
JoinedByPoolEdge(node, other) == Occurrences(<<node, other>>, untraversed_edges) >= 1

\* C20: whenever the walk calls get_neighbour_with_untraversed_edge, a neighbour of
\* current_node in the graph is joined to it by a pool edge, and the station the call
\* returns, the next current_node, is joined to current_node by a pool edge
NeighbourChoiceSound ==
    /\ [](NeighbourCall =>
             \E n \in Neighbours(graph, current_node) : JoinedByPoolEdge(current_node, n))
    /\ [][NeighbourCall => JoinedByPoolEdge(current_node, current_node')]_vars

\* get_neighbour_with_untraversed_edge is called while a neighbour of current_node is
\* not joined to it by a pool edge any more
NeighbourCallWithUsedEdge ==
    /\ NeighbourCall
    /\ \E n \in Neighbours(graph, current_node) : ~JoinedByPoolEdge(current_node, n)

\* C21: no step of algo changes the graph; every run of the for loop starts with the
\* pool equal to the edge list of the graph and with a service without tracks, covered
\* edges and time; all_services grows only by the service just optimised, at its end;
\* and when algo returns, all_services holds one service per iteration
AlgoFrame ==
    /\ [][graph' = graph]_vars
    /\ [][(pc = "for" /\ pc' = "while") =>
             /\ untraversed_edges' = graph.edges
             /\ service'.tracks = <<>>
             /\ service'.critical_edges_traversed = <<>>
             /\ service'.time = 0]_vars
    /\ [][all_services' # all_services =>
             (pc = "collect" /\ all_services' = Append(all_services, service))]_vars
    /\ [](pc = "done" => Len(all_services) = iterator)

\* a second run has started, with the full pool and a service without tracks, after
\* the first run returned a service with tracks
SecondRunStarted ==
    /\ pc = "while"
    /\ i = 1
    /\ all_services[1].tracks # <<>>
    /\ service.tracks = <<>>
    /\ untraversed_edges = graph.edges

\* the critical edges of the graph, as sets of two stations, that occur in a track of
\* a track list in one of the two orientations
CriticalEdgesIn(tracks) ==
    {{graph.critical_edge_list[c][1], graph.critical_edge_list[c][2]} :
        c \in {d \in DOMAIN graph.critical_edge_list :
                  \E k \in DOMAIN tracks : UndirectedIn(graph.critical_edge_list[d], tracks[k].edges)}}

\* two coverages covered / all are the same fraction
SameCoverage(p, q) == p[1] * q[2] = q[1] * p[2]

\* C22: neither remove_unnecessary_tracks nor combine_tracks changes the set of critical
\* edges that occur in the tracks of the service, or the coverage of the service
OptimisationKeepsCoverage ==
    [][(pc = "prune" \/ pc = "merge") =>
          (/\ CriticalEdgesIn(service'.tracks) = CriticalEdgesIn(service.tracks)
           /\ SameCoverage(service'.percen_critical_edges_traversed,
                           service.percen_critical_edges_traversed))]_vars

\* the optimisation of a service that covers a critical edge has taken out a track
\* without critical edges and has spliced tracks
PrunedAndSpliced ==
    /\ pc = "collect"
    /\ merge_log # <<>>
    /\ \E k \in DOMAIN pre_prune : ~TouchesCritical(graph, pre_prune[k])
    /\ service.critical_edges_traversed # <<>>

(***************************************************************************)
(* The number of tracks across the merge pass.                             *)
(***************************************************************************)

\* C23: the merge pass never increases the number of tracks of a service:
\* across every call of combine_tracks on a constructed and pruned service
\* the service holds at most as many tracks after the call as before it.
MergeNeverAddsTracks ==
    [][pc = "merge" => Len(service'.tracks) <= Len(service.tracks)]_vars

(***************************************************************************)
(* The tracks of the returned services.                                    *)
(***************************************************************************)

\* C24: every track of every service algo returns holds at least one edge, holds
\* a critical edge of the graph in one of its two orientations, and has
\* necessary = TRUE (no track the merge pass superseded is left in a service)
ReturnedTracksSound ==
    pc = "done" =>
        \A a \in DOMAIN all_services : \A k \in DOMAIN all_services[a].tracks :
            LET t == all_services[a].tracks[k]
            IN  /\ t.edges # <<>>
                /\ TouchesCritical(graph, t)
                /\ t.necessary = TRUE

\* algo has returned a service whose construction left a track without a critical
\* edge and whose merge pass accepted a splice
ReturnedPrunedAndSpliced ==
    /\ pc = "done"
    /\ all_services # <<>>
    /\ all_services[Len(all_services)].tracks # <<>>
    /\ merge_log # <<>>
    /\ \E k \in DOMAIN pre_prune : ~TouchesCritical(graph, pre_prune[k])

====
